---- MODULE Spec2Model ----
(***************************************************************************)
(* Model of src/src/components/dust-input.tsx (the DustInput component):   *)
(* a text input that emits a burst of particles where a character was      *)
(* deleted, and a per-frame loop that fades, culls and paints them.        *)
(*                                                                         *)
(* Number representation.  The component computes with IEEE doubles; the   *)
(* model uses exact fixed point:                                           *)
(*   - lengths and positions are integers in eighths of a pixel (Px),      *)
(*   - alpha is an integer in units of 1/lifespan (Alpha), so 1.0 is       *)
(*     particleSettings.lifespan and one fade step is fadeSpeed,           *)
(*   - size is an integer in millionths of a pixel, the 1% shrink rounds   *)
(*     down to that unit,                                                  *)
(*   - Math.random() is a value r/4 with r in RandomValues, taken from a   *)
(*     input: createParticles receives the stream rng, rng+1, ... (mod 4), *)
(*     animate receives rng on every call, rng fixed per behaviour.        *)
(* In doubles the 60th fade step leaves alpha at -1.39e-15 instead of 0;   *)
(* both are <= 0, so culling happens on the same tick as in the model.     *)
(***************************************************************************)
EXTENDS Integers, Sequences, FiniteSets, TLC

VARIABLES
  phase,          \* component lifecycle: "rendered", "active", "cleaned", "unmounted"
  listeners,      \* number of 'resize' listeners registered on window
  pendingFrames,  \* requestAnimationFrame callbacks waiting to fire
  mounts,         \* how many times the mount effect has run
  canvas,         \* canvas.width / canvas.height
  inputRect,      \* bounding client rect of the input element, in px
  font,           \* computed font of the input: advance of one glyph, in px
  previousValue,  \* inputRef.current.dataset.previousValue
  particles,      \* particlesRef.current
  ages,           \* for each particle of the store, the ticks it has been through (history)
  rng,            \* first value of the stream Math.random() returns to a handler
  edits,          \* number of edit events delivered so far
  delivered,      \* the text the most recent edit event delivered (history)
  call            \* the last operation, its inputs and what it did (history)

vars == <<phase, listeners, pendingFrames, mounts, canvas, inputRect, font,
          previousValue, particles, ages, rng, edits, delivered, call>>

----------------------------------------------------------------------------
(* Bounds *)

MaxLen == 2        \* longest generated text of the edit-only specification
MaxEdits == 2      \* edit events per behaviour
MaxMounts == 2     \* runs of the mount effect per behaviour
MaxCount == 2      \* largest count passed to createParticles directly
MaxStore == 2      \* largest store when createParticles is called directly

----------------------------------------------------------------------------
(* Units and inputs *)

\* n pixels in eighths of a pixel
Px(n) == 8 * n

\* Math.random() returns r/4 for an r of this set
RandomValues == 0..3

Chars == {"a", " "}

TextsOver(cs, n) == UNION {[1..k -> cs] : k \in 0..n}

Examples == {<<"a", "b", "c">>, <<"a", "b">>, <<"a", "b", " ", "c">>, <<"a", "b", " ">>}

InputTexts == TextsOver(Chars, MaxLen) \cup Examples

RunTexts == {<<>>, <<"a">>, <<" ">>}

Fonts == {6, 20}

Viewports == {[width |-> 800, height |-> 600], [width |-> 1024, height |-> 768]}

RunRect == [left |-> 250, top |-> 30, width |-> 300, height |-> 42]

InputRects ==
  {RunRect,
   [left |-> 0, top |-> 7, width |-> 40, height |-> 21],
   [left |-> 13, top |-> 0, width |-> 0, height |-> 0]}

BurstOrigins == {[x |-> Px(100), y |-> Px(50)]}

DefaultCanvas == [width |-> 300, height |-> 150]

----------------------------------------------------------------------------
(* particleSettings: size in millionths of a pixel, the rest as in the source *)

particleSettings ==
  [size |-> 1250000,
   speed |-> 5,
   wind |-> 1,
   animationOffsetLeft |-> 25,
   numberOfParticles |-> 120,
   lifespan |-> 120,
   fadeSpeed |-> 2,
   colors |-> <<"#000000", "#969696", "#333333", "#404040", "#2e2e2e", "#dbdbdb">>]

\* the opacity a (a whole number) in units of 1/lifespan
Alpha(a) == a * particleSettings.lifespan

----------------------------------------------------------------------------
(* Math.random *)

\* the k-th value (k = 0, 1, ...) of the stream that starts at s
Random(s, k) == (s + k) % Cardinality(RandomValues)

\* (Math.random() - 0.5) * m px in eighths of a pixel, for m = twice / 2
Centered(r, twice) == ((2 * r - Cardinality(RandomValues)) * twice) \div 2

----------------------------------------------------------------------------
(* createParticles *)

\* the i-th particle of a burst: five calls of Math.random, in source order
newParticle(x, y, s, i) ==
  LET r(k) == Random(s, 5 * (i - 1) + k) IN
  [x |-> x + Centered(r(0), 2 * 25),
   y |-> y + Centered(r(1), 2 * 5),
   vx |-> 2 * r(2) * particleSettings.speed + Px(particleSettings.wind),
   vy |-> Centered(r(3), 2 * particleSettings.speed),
   alpha |-> Alpha(1),
   size |-> particleSettings.size,
   lifespan |-> particleSettings.lifespan,
   color |-> particleSettings.colors[
               (r(4) * Len(particleSettings.colors)) \div Cardinality(RandomValues) + 1]]

\* a bug: the store is replaced by the new particles
createParticlesReplacing(ps, x, y, count, s) ==
  [i \in 1..count |-> newParticle(x, y, s, i)]

createParticles(ps, x, y, count, s) ==
  ps \o [i \in 1..count |-> newParticle(x, y, s, i)]

----------------------------------------------------------------------------
(* animate *)

\* a bug: the fade ignores fadeSpeed
updateParticleSlowFade(p, r) ==
  [p EXCEPT !.x = p.x + p.vx,
            !.y = p.y + p.vy + Centered(r, 1),
            !.alpha = p.alpha - (Alpha(1) \div p.lifespan),
            !.size = (p.size * 99) \div 100]

\* a bug: a tick leaves the particle as it is
updateParticleFrozen(p, r) == p

\* a bug: the particle grows by 1% instead of shrinking
updateParticleGrowing(p, r) ==
  [p EXCEPT !.x = p.x + p.vx,
            !.y = p.y + p.vy + Centered(r, 1),
            !.alpha = p.alpha - (Alpha(particleSettings.fadeSpeed) \div p.lifespan),
            !.size = (p.size * 101) \div 100]

\* the body of the map callback, r the value Math.random() returned
updateParticle(p, r) ==
  [p EXCEPT !.x = p.x + p.vx,
            !.y = p.y + p.vy + Centered(r, 1),
            !.alpha = p.alpha - (Alpha(particleSettings.fadeSpeed) \div p.lifespan),
            !.size = (p.size * 99) \div 100]

\* a bug: a particle whose alpha is exactly 0 is kept
survivesAtZero(p) == p.alpha >= 0

\* a bug: a particle is dropped one fade step early
survivesOneStepMore(p) == p.alpha > Alpha(particleSettings.fadeSpeed) \div p.lifespan

\* p.alpha > 0 ? p : null, and the filter that drops the nulls
survives(p) == p.alpha > 0

animateParticles(ps, s) ==
  LET moved == [i \in 1..Len(ps) |-> updateParticle(ps[i], s)]
  IN SelectSeq(moved, survives)

\* the tick counts after animateParticles(ps, s): those of the particles it keeps,
\* each one more
agedParticles(ag, ps, s) ==
  LET kept == SelectSeq([i \in 1..Len(ps) |-> i],
                        LAMBDA i : survives(updateParticle(ps[i], s)))
  IN [k \in 1..Len(kept) |-> ag[kept[k]] + 1]

\* the tick counts of a store of n particles whose new particles come last
withNewborn(ag, n) == [i \in 1..n |-> IF i <= Len(ag) THEN ag[i] ELSE 0]

\* a bug: the frame is not skipped when the 2D context is missing
animateWithoutContext(ps, hasCanvas, hasCtx, s) ==
  IF ~hasCanvas THEN
    [particles |-> ps, frame |-> "nocanvas", painted |-> <<>>, scheduled |-> 0]
  ELSE
    [particles |-> animateParticles(ps, s), frame |-> "drawn", painted |-> <<>>,
     scheduled |-> 1]

\* a bug: the particles are painted before the faded ones are dropped
animatePaintingBeforeCull(ps, hasCanvas, hasCtx, s) ==
  IF ~hasCanvas THEN
    [particles |-> ps, frame |-> "nocanvas", painted |-> <<>>, scheduled |-> 0]
  ELSE IF ~hasCtx THEN
    [particles |-> ps, frame |-> "noctx", painted |-> <<>>, scheduled |-> 0]
  ELSE IF Len(ps) > 0 THEN
    [particles |-> animateParticles(ps, s), frame |-> "drawn",
     painted |-> [i \in 1..Len(ps) |-> updateParticle(ps[i], s)], scheduled |-> 1]
  ELSE
    [particles |-> ps, frame |-> "cleared", painted |-> <<>>, scheduled |-> 1]

\* one invocation: the store after it, what it painted, how often it re-armed.
\* frame "drawn": clearRect, then one arc per element of painted, in that order;
\* frame "cleared": clearRect alone; otherwise the surface is not touched
animate(ps, hasCanvas, hasCtx, s) ==
  IF ~hasCanvas THEN
    [particles |-> ps, frame |-> "nocanvas", painted |-> <<>>, scheduled |-> 0]
  ELSE IF ~hasCtx THEN
    [particles |-> ps, frame |-> "noctx", painted |-> <<>>, scheduled |-> 0]
  ELSE IF Len(ps) > 0 THEN
    LET alive == animateParticles(ps, s) IN
    [particles |-> alive, frame |-> "drawn", painted |-> alive, scheduled |-> 1]
  ELSE
    [particles |-> ps, frame |-> "cleared", painted |-> <<>>, scheduled |-> 1]

----------------------------------------------------------------------------
(* getTextWidth, handleInput *)

\* context.measureText(text).width in a font whose glyphs advance by f px
measureText(text, f) == Px(Len(text) * f)

\* a bug: the offset is left out
getTextWidthNoOffset(text, f, hasCtx, fieldWidth) ==
  IF hasCtx THEN
    LET textWidth == measureText(text, f)
    IN IF textWidth <= fieldWidth THEN textWidth ELSE fieldWidth
  ELSE 0

\* a bug: the width is not clamped to the field
getTextWidthUnclamped(text, f, hasCtx, fieldWidth) ==
  IF hasCtx THEN measureText(text, f) + Px(particleSettings.animationOffsetLeft) ELSE 0

\* a variant: without a context the text measures 0 and the offset is still added
getTextWidthOffsetFallback(text, f, hasCtx, fieldWidth) ==
  LET textWidth == (IF hasCtx THEN measureText(text, f) ELSE 0)
                     + Px(particleSettings.animationOffsetLeft)
  IN IF textWidth <= fieldWidth THEN textWidth ELSE fieldWidth

\* fieldWidth: inputRef.current.getBoundingClientRect().width
getTextWidth(text, f, hasCtx, fieldWidth) ==
  IF hasCtx THEN
    LET textWidth == measureText(text, f) + Px(particleSettings.animationOffsetLeft)
    IN IF textWidth <= fieldWidth THEN textWidth ELSE fieldWidth
  ELSE 0

\* a bug: the deleted character is not compared with the space
deletionOfAnyChar(currentValue, previous) ==
  Len(currentValue) < Len(previous)

\* a bug: the first character is compared with the space, not the last
deletionLooksAtFirstChar(currentValue, previous) ==
  /\ Len(currentValue) < Len(previous)
  /\ previous[1] # " "

\* a bug: any change of length counts, not only a shorter text
deletionOnAnyLengthChange(currentValue, previous) ==
  /\ Len(currentValue) # Len(previous)
  /\ Len(previous) > 0 => previous[Len(previous)] # " "

\* the two nested conditions under which handleInput calls createParticles
deletion(currentValue, previous) ==
  /\ Len(currentValue) < Len(previous)
  /\ previous[Len(previous)] # " "

\* a bug: the text is recorded only when no burst fired
handleInputForgetful(currentValue, previous, f, rect, measureCtx, ps, s) ==
  LET n == particleSettings.numberOfParticles
      x == Px(rect.left) + getTextWidth(SubSeq(previous, 1, Len(previous) - 1), f,
                                        measureCtx, Px(rect.width))
      y == Px(rect.top) + (Px(rect.height) \div 2)
  IN IF deletion(currentValue, previous)
     THEN [particles |-> createParticles(ps, x, y, n, s),
           burst |-> <<x, y, n>>,
           previousValue |-> previous]
     ELSE [particles |-> ps, burst |-> <<>>, previousValue |-> currentValue]

\* the handler as a function of what it reads: the input's text, the recorded
\* text, the font, the bounding rect, whether a measuring context can be had,
\* the store and the generator
handleInput(currentValue, previous, f, rect, measureCtx, ps, s) ==
  LET deletedCharIndex == Len(previous) - 1
      n == particleSettings.numberOfParticles
      textWidth == getTextWidth(SubSeq(previous, 1, deletedCharIndex), f, measureCtx,
                                Px(rect.width))
      x == Px(rect.left) + textWidth
      y == Px(rect.top) + (Px(rect.height) \div 2)
  IN IF deletion(currentValue, previous)
     THEN [particles |-> createParticles(ps, x, y, n, s),
           burst |-> <<x, y, n>>,
           previousValue |-> currentValue]
     ELSE [particles |-> ps, burst |-> <<>>, previousValue |-> currentValue]

----------------------------------------------------------------------------
(* The initial state: the component has rendered, its effect has not run *)

NoCall ==
  [op |-> "init", currentValue |-> <<>>, previousValue |-> <<>>, prior |-> <<>>,
   measureCtx |-> TRUE, burst |-> <<>>, count |-> 0, before |-> <<>>,
   ages |-> <<>>,
   hasCanvas |-> TRUE, hasCtx |-> TRUE, frame |-> "none", painted |-> <<>>,
   scheduled |-> 0]

Start(rects, fonts, seeds) ==
  /\ phase = "rendered"
  /\ listeners = 0
  /\ pendingFrames = 0
  /\ mounts = 0
  /\ canvas = DefaultCanvas
  /\ inputRect \in rects
  /\ font \in fonts
  /\ previousValue = <<>>
  /\ particles = <<>>
  /\ ages = <<>>
  /\ rng \in seeds
  /\ edits = 0
  /\ delivered = <<>>
  /\ call = NoCall

Init == Start({RunRect}, {20}, {1})

InitInput == Start(InputRects, Fonts, {0})

\* the state after the mount effect has run and animate has re-armed
InitBurst ==
  /\ phase = "active"
  /\ listeners = 1
  /\ pendingFrames = 1
  /\ mounts = 1
  /\ canvas \in Viewports
  /\ inputRect = RunRect
  /\ font = 20
  /\ previousValue = <<>>
  /\ particles = <<>>
  /\ ages = <<>>
  /\ rng \in RandomValues
  /\ edits = 0
  /\ delivered = <<>>
  /\ call = NoCall

----------------------------------------------------------------------------
(* Actions *)

\* an edit event delivers the text currentValue to handleInput
onInput(currentValue, measureCtx) ==
  /\ phase # "unmounted"
  /\ edits < MaxEdits
  /\ LET h == handleInput(currentValue, previousValue, font, inputRect, measureCtx,
                          particles, rng)
     IN /\ particles' = h.particles
        /\ ages' = withNewborn(ages, Len(h.particles))
        /\ previousValue' = h.previousValue
        /\ call' = [NoCall EXCEPT !.op = "handleInput",
                                  !.currentValue = currentValue,
                                  !.previousValue = previousValue,
                                  !.prior = delivered,
                                  !.measureCtx = measureCtx,
                                  !.before = particles,
                                  !.ages = ages,
                                  !.burst = h.burst]
  /\ edits' = edits + 1
  /\ delivered' = currentValue
  /\ UNCHANGED <<phase, listeners, pendingFrames, mounts, canvas, inputRect, font, rng>>

EditEvent == \E currentValue \in RunTexts, measureCtx \in BOOLEAN :
               onInput(currentValue, measureCtx)

InputEvent == \E currentValue \in InputTexts, measureCtx \in BOOLEAN :
                onInput(currentValue, measureCtx)

\* a pending per-frame callback fires and runs animate
FrameCallback ==
  /\ pendingFrames > 0
  /\ \E hasCtx \in BOOLEAN :
       LET a == animate(particles, phase # "unmounted", hasCtx, rng) IN
       /\ particles' = a.particles
       /\ ages' = IF a.frame = "drawn" THEN agedParticles(ages, particles, rng) ELSE ages
       /\ pendingFrames' = pendingFrames - 1 + a.scheduled
       /\ call' = [NoCall EXCEPT !.op = "animate", !.before = particles,
                                 !.ages = ages,
                                 !.hasCanvas = (phase # "unmounted"), !.hasCtx = hasCtx,
                                 !.frame = a.frame, !.painted = a.painted,
                                 !.scheduled = a.scheduled]
  /\ UNCHANGED <<phase, listeners, mounts, canvas, inputRect, font, previousValue,
                 rng, edits, delivered>>

\* the mount effect: resizeCanvas(), addEventListener('resize'), animate()
MountEffect ==
  /\ phase \in {"rendered", "cleaned"}
  /\ mounts < MaxMounts
  /\ phase' = "active"
  /\ mounts' = mounts + 1
  /\ canvas' \in Viewports
  /\ listeners' = listeners + 1
  /\ \E hasCtx \in BOOLEAN :
       LET a == animate(particles, TRUE, hasCtx, rng) IN
       /\ particles' = a.particles
       /\ ages' = IF a.frame = "drawn" THEN agedParticles(ages, particles, rng) ELSE ages
       /\ pendingFrames' = pendingFrames + a.scheduled
       /\ call' = [NoCall EXCEPT !.op = "effect", !.before = particles,
                                 !.ages = ages,
                                 !.hasCtx = hasCtx, !.frame = a.frame,
                                 !.painted = a.painted, !.scheduled = a.scheduled]
  /\ UNCHANGED <<inputRect, font, previousValue, rng, edits, delivered>>

\* the cleanup of the mount effect: removeEventListener('resize').  React runs
\* it when the effect is re-run and, at unmount, after the refs were set to null
EffectCleanup ==
  /\ listeners > 0
  /\ phase' = IF phase = "active" THEN "cleaned" ELSE phase
  /\ listeners' = listeners - 1
  /\ call' = [NoCall EXCEPT !.op = "cleanup", !.before = particles, !.ages = ages]
  /\ UNCHANGED <<pendingFrames, mounts, canvas, inputRect, font, previousValue,
                 particles, ages, rng, edits, delivered>>

\* the component leaves the page: canvasRef.current and inputRef.current become
\* null, whether or not the effect has run or its cleanup has run yet
Unmount ==
  /\ phase # "unmounted"
  /\ phase' = "unmounted"
  /\ call' = [NoCall EXCEPT !.op = "unmount", !.before = particles, !.ages = ages]
  /\ UNCHANGED <<listeners, pendingFrames, mounts, canvas, inputRect, font,
                 previousValue, particles, ages, rng, edits, delivered>>

\* a bug: resizing also empties the store
resizeCanvasClearing(v) ==
  /\ listeners > 0
  /\ v # canvas
  /\ canvas' = v
  /\ particles' = <<>>
  /\ ages' = <<>>
  /\ call' = [NoCall EXCEPT !.op = "resize", !.before = particles, !.ages = ages]
  /\ UNCHANGED <<phase, listeners, pendingFrames, mounts, inputRect, font,
                 previousValue, rng, edits, delivered>>

\* the window is resized to v: the registered resizeCanvas runs
resizeCanvas(v) ==
  /\ listeners > 0
  /\ v # canvas
  /\ canvas' = v
  /\ call' = [NoCall EXCEPT !.op = "resize", !.before = particles, !.ages = ages]
  /\ UNCHANGED <<phase, listeners, pendingFrames, mounts, inputRect, font,
                 previousValue, particles, ages, rng, edits, delivered>>

ResizeEvent == \E v \in Viewports : resizeCanvas(v)

\* createParticles called on its own, with any count up to MaxCount
CreateBurst ==
  /\ phase # "unmounted"
  /\ \E o \in BurstOrigins, count \in 0..MaxCount :
       /\ Len(particles) + count <= MaxStore
       /\ particles' = createParticles(particles, o.x, o.y, count, rng)
       /\ ages' = withNewborn(ages, Len(particles'))
       /\ call' = [NoCall EXCEPT !.op = "createParticles", !.before = particles,
                                 !.ages = ages,
                                 !.burst = <<o.x, o.y, count>>, !.count = count]
  /\ UNCHANGED <<phase, listeners, pendingFrames, mounts, canvas, inputRect, font,
                 previousValue, rng, edits, delivered>>

----------------------------------------------------------------------------
(* Specifications *)

\* the whole component
Next ==
  \/ MountEffect
  \/ EffectCleanup
  \/ Unmount
  \/ ResizeEvent
  \/ EditEvent
  \/ FrameCallback

Spec == Init /\ [][Next]_vars

\* the edit handler alone, over more texts, fonts and input boxes
NextInput == InputEvent

SpecInput == InitInput /\ [][NextInput]_vars

\* the particle store alone: bursts of any small count, resizes, and the frame loop
NextBurst ==
  \/ CreateBurst
  \/ ResizeEvent
  \/ FrameCallback

SpecBurst == InitBurst /\ [][NextBurst]_vars

\* the component while it stays on the page: the effect runs once, edits and
\* resizes arrive, and a pending frame callback is eventually run
NextLive ==
  \/ MountEffect
  \/ ResizeEvent
  \/ EditEvent
  \/ FrameCallback

SpecLive == Init /\ [][NextLive]_vars /\ WF_vars(FrameCallback)

----------------------------------------------------------------------------
(* Claims *)

Min(a, b) == IF a <= b THEN a ELSE b

\* the edit handler was the last operation
Edited == call.op = "handleInput"

\* the last edit created a burst
Fired == Edited /\ call.burst # <<>>

\* the last edit removed exactly the last character, and it was not a space
RemovedLastChar ==
  /\ Edited
  /\ Len(call.previousValue) > 0
  /\ call.currentValue = SubSeq(call.previousValue, 1, Len(call.previousValue) - 1)
  /\ call.previousValue[Len(call.previousValue)] # " "

\* measured width of previous_text[0 : len - 1] plus the offset, in eighths of a pixel
MeasuredPlusOffset ==
  measureText(SubSeq(call.previousValue, 1, Len(call.previousValue) - 1), font)
    + Px(particleSettings.animationOffsetLeft)

\* the particles the last operation added to the store
Added == SubSeq(particles, Len(call.before) + 1, Len(particles))

\* animate ran with the canvas and its 2D context available
Ticked == call.op \in {"animate", "effect"} /\ call.hasCanvas /\ call.hasCtx

\* alpha of the i-th particle of the store before the tick, after the decrement
PostAlpha(i) ==
  call.before[i].alpha - (Alpha(particleSettings.fadeSpeed) \div call.before[i].lifespan)

\* the particles of the store before the tick whose alpha stays above 0
Kept == {i \in 1..Len(call.before) : PostAlpha(i) > 0}

\* the position in the store after the tick of the kept particle i
Rank(i) == Cardinality({k \in Kept : k <= i})

\* C1: an edit creates a burst if and only if the new text is shorter than the
\* recorded one and the last character of the recorded text is not a space;
\* every edit that does not shorten the text leaves the store unchanged.
C1_BurstIffShorterAndNotSpace ==
  Edited =>
    LET cur == call.currentValue
        prev == call.previousValue
        shorterNotSpace == Len(cur) < Len(prev) /\ prev[Len(prev)] # " "
    IN /\ (call.burst # <<>>) <=> shorterNotSpace
       /\ shorterNotSpace => Len(particles) = Len(call.before) + call.burst[3]
       /\ ~shorterNotSpace => particles = call.before
       /\ Len(cur) >= Len(prev) => particles = call.before

C1_Witness ==
  /\ Fired
  /\ Len(particles) > Len(call.before)
  /\ " " \in {call.previousValue[i] : i \in 1..Len(call.previousValue)}

\* C2 as stated: deleting a non-space last character creates one burst of
\* numberOfParticles particles at x = left + min(measured width + offset, field
\* width), y = top + height / 2.
C2_SpawnPointAsStated ==
  RemovedLastChar =>
    /\ Len(particles) = Len(call.before) + particleSettings.numberOfParticles
    /\ call.burst = <<Px(inputRect.left) + Min(MeasuredPlusOffset, Px(inputRect.width)),
                      Px(inputRect.top) + (Px(inputRect.height) \div 2),
                      particleSettings.numberOfParticles>>

\* C2 amended: the same, with x = left + min(measured width + offset, field width)
\* when the measuring context is available and x = left when it is not.
C2_SpawnPoint ==
  RemovedLastChar =>
    /\ Len(particles) = Len(call.before) + particleSettings.numberOfParticles
    /\ SubSeq(particles, 1, Len(call.before)) = call.before
    /\ call.burst = <<Px(inputRect.left)
                        + (IF call.measureCtx
                           THEN Min(MeasuredPlusOffset, Px(inputRect.width))
                           ELSE 0),
                      Px(inputRect.top) + (Px(inputRect.height) \div 2),
                      particleSettings.numberOfParticles>>
    /\ \A i \in 1..Len(Added) :
         /\ 2 * Added[i].x >= 2 * call.burst[1] - Px(25)
         /\ 2 * Added[i].x < 2 * call.burst[1] + Px(25)
         /\ 2 * Added[i].y >= 2 * call.burst[2] - Px(5)
         /\ 2 * Added[i].y < 2 * call.burst[2] + Px(5)

C2_Witness ==
  /\ RemovedLastChar
  /\ call.previousValue = <<"a", "b", "c">>
  /\ call.currentValue = <<"a", "b">>
  /\ call.measureCtx
  /\ MeasuredPlusOffset < Px(inputRect.width)
  /\ Len(particles) = particleSettings.numberOfParticles

\* C3: the spawn x of every burst an edit creates is at most the input's left
\* edge plus the input's width.
C3_SpawnXClamped ==
  Fired => call.burst[1] <= Px(inputRect.left) + Px(inputRect.width)

C3_Witness ==
  /\ Fired
  /\ call.measureCtx
  /\ MeasuredPlusOffset > Px(inputRect.width)
  /\ call.burst[1] = Px(inputRect.left) + Px(inputRect.width)

\* C4: the recorded text is always the text of the most recent edit event (the
\* empty text before the first), and an edit decides on its burst from the text
\* the previous edit event delivered.
C4_PreviousIsLastDelivered ==
  /\ previousValue = delivered
  /\ Edited =>
       /\ previousValue = call.currentValue
       /\ (call.burst # <<>>) <=>
            /\ Len(call.currentValue) < Len(call.prior)
            /\ call.prior[Len(call.prior)] # " "

C4_Witness ==
  /\ Fired
  /\ edits = 2
  /\ call.prior = <<"a">>
  /\ previousValue = <<>>
  /\ pendingFrames > 0

\* C5: createParticles(x, y, n) appends n particles with alpha 1, the base size
\* and the configured lifespan after the existing ones, which stay as they were;
\* with n = 0 the store is unchanged.
C5_BurstAppends ==
  call.op = "createParticles" =>
    /\ Len(particles) = Len(call.before) + call.count
    /\ SubSeq(particles, 1, Len(call.before)) = call.before
    /\ \A i \in 1..Len(Added) :
         /\ Added[i].alpha = Alpha(1)
         /\ Added[i].size = particleSettings.size
         /\ Added[i].lifespan = particleSettings.lifespan
    /\ call.count = 0 => particles = call.before

C5_Witness ==
  /\ call.op = "createParticles"
  /\ call.count >= 1
  /\ Len(call.before) >= 1
  /\ call.before[1].alpha < Alpha(1)
  /\ Len(particles) = Len(call.before) + call.count

\* C6: in a tick with the surface available a particle leaves the store if and
\* only if its alpha after the decrement is <= 0; the others stay, in order.
C6_RemovedIffFaded ==
  Ticked =>
    /\ Len(particles) = Cardinality(Kept)
    /\ \A i \in Kept :
         /\ particles[Rank(i)].alpha = PostAlpha(i)
         /\ particles[Rank(i)].x = call.before[i].x + call.before[i].vx
         /\ particles[Rank(i)].vx = call.before[i].vx
         /\ particles[Rank(i)].vy = call.before[i].vy
         /\ particles[Rank(i)].color = call.before[i].color
         /\ particles[Rank(i)].lifespan = call.before[i].lifespan

C6_Witness ==
  /\ Ticked
  /\ Len(call.before) = 2
  /\ PostAlpha(1) = 0
  /\ PostAlpha(2) > 0
  /\ Len(particles) = 1

\* C7: every particle that is in the store before and after a tick has lost
\* fadeSpeed / lifespan of alpha in it, which is 1/60.
C7_FadeStep ==
  Ticked =>
    \A i \in Kept :
      LET lost == call.before[i].alpha - particles[Rank(i)].alpha IN
      /\ lost * call.before[i].lifespan = Alpha(particleSettings.fadeSpeed)
      /\ 60 * lost = Alpha(1)

C7_Witness ==
  /\ Ticked
  /\ Len(particles) = 2
  /\ Len(call.before) = 2
  /\ particles[1].alpha < particles[2].alpha
  /\ particles[2].alpha < Alpha(1) - particleSettings.fadeSpeed

\* C8: animate invoked without the canvas or without its 2D context leaves the
\* store as it was and paints nothing.
C8_NoSurfaceNoOp ==
  (call.op \in {"animate", "effect"} /\ ~(call.hasCanvas /\ call.hasCtx)) =>
    /\ particles = call.before
    /\ call.painted = <<>>
    /\ call.frame \in {"nocanvas", "noctx"}

C8_Witness ==
  /\ call.op = "animate"
  /\ call.hasCanvas
  /\ ~call.hasCtx
  /\ Len(call.before) > 0
  /\ particles = call.before

\* C9: every invocation of animate while the view is mounted schedules exactly
\* one further frame callback.
C9_EveryInvocationRearms ==
  (call.op \in {"animate", "effect"} /\ phase # "unmounted") => call.scheduled = 1

\* C10 as stated: a burst created without a measuring context spawns at the
\* left edge plus the offset (clamped to the field width), and the text is
\* recorded.
C10_FallbackAsStated ==
  (Fired /\ ~call.measureCtx) =>
    /\ call.burst[1] = Px(inputRect.left)
                         + Min(Px(particleSettings.animationOffsetLeft), Px(inputRect.width))
    /\ previousValue = call.currentValue

\* C10 amended: a burst created without a measuring context spawns at the left
\* edge itself, the offset is not added, and the text is recorded.
C10_FallbackAtLeftEdge ==
  (Fired /\ ~call.measureCtx) =>
    /\ call.burst[1] = Px(inputRect.left)
    /\ call.burst[2] = Px(inputRect.top) + (Px(inputRect.height) \div 2)
    /\ Len(particles) = Len(call.before) + particleSettings.numberOfParticles
    /\ previousValue = call.currentValue

C10_Witness ==
  /\ Fired
  /\ ~call.measureCtx
  /\ inputRect.width > particleSettings.animationOffsetLeft
  /\ call.burst[1] = Px(inputRect.left)
  /\ previousValue = call.currentValue

\* text t without its i-th character
Without(t, i) == SubSeq(t, 1, i - 1) \o SubSeq(t, i + 1, Len(t))

\* the last edit removed exactly one character, a space
RemovedSpace ==
  /\ Edited
  /\ \E i \in 1..Len(call.previousValue) :
       /\ call.previousValue[i] = " "
       /\ call.currentValue = Without(call.previousValue, i)

\* the last edit removed exactly one character
RemovedOneChar ==
  /\ Edited
  /\ \E i \in 1..Len(call.previousValue) :
       call.currentValue = Without(call.previousValue, i)

\* the last edit was "ab c" -> "ab "
EditedAbSpaceC ==
  /\ Edited
  /\ call.previousValue = <<"a", "b", " ", "c">>
  /\ call.currentValue = <<"a", "b", " ">>

\* C11 as stated: an edit that deletes a space, wherever it stands, creates no
\* burst, and neither does the edit "ab c" -> "ab ".
C11_SpaceDeletionAsStated ==
  (RemovedSpace \/ EditedAbSpaceC) => (call.burst = <<>> /\ particles = call.before)

\* C11 amended: an edit that shortens a text whose last character is a space
\* creates no burst, whatever was deleted ("ab " -> "ab" leaves the store
\* unchanged); an edit that deletes a space standing before a non-space last
\* character creates one, and so does "ab c" -> "ab ", which deletes the c.
C11_TrailingSpaceNoBurst ==
  /\ (Edited /\ Len(call.previousValue) > 0
        /\ call.previousValue[Len(call.previousValue)] = " ")
       => (call.burst = <<>> /\ particles = call.before)
  /\ (RemovedSpace /\ call.previousValue[Len(call.previousValue)] # " ")
       => (call.burst # <<>> /\ Len(particles) > Len(call.before))
  /\ EditedAbSpaceC => (call.burst # <<>> /\ Len(particles) > Len(call.before))

C11_Witness ==
  /\ RemovedSpace
  /\ call.previousValue = <<"a", "b", " ">>
  /\ call.currentValue = <<"a", "b">>
  /\ call.burst = <<>>
  /\ particles = call.before

\* C12 as stated: an edit other than the removal of exactly one character
\* creates no burst.
C12_MultiCharAsStated ==
  (Edited /\ ~RemovedOneChar) => (call.burst = <<>> /\ particles = call.before)

\* C12 amended: an edit other than the removal of exactly one character creates
\* no burst when it leaves the text as long or longer; when it shortens the text
\* it creates a burst exactly if the last character of the recorded text is not
\* a space.
C12_MultiCharByLength ==
  (Edited /\ ~RemovedOneChar) =>
    /\ Len(call.currentValue) >= Len(call.previousValue)
         => (call.burst = <<>> /\ particles = call.before)
    /\ Len(call.currentValue) < Len(call.previousValue)
         => ((call.burst # <<>>) <=> call.previousValue[Len(call.previousValue)] # " ")

C12_Witness ==
  /\ Edited
  /\ ~RemovedOneChar
  /\ Len(call.previousValue) >= 2
  /\ call.previousValue[Len(call.previousValue)] # " "
  /\ Len(call.currentValue) > Len(call.previousValue)
  /\ call.burst = <<>>
  /\ particles = call.before

\* C13: a resize leaves the store (its particles, their order, positions, alpha
\* and size) and the recorded text as they were, and sets the canvas to the
\* viewport.
C13_ResizeKeepsStore ==
  call.op = "resize" =>
    /\ particles = call.before
    /\ previousValue = delivered
    /\ canvas \in Viewports

C13_Witness ==
  /\ call.op = "resize"
  /\ edits = 2
  /\ Len(particles) = particleSettings.numberOfParticles
  /\ particles[1].alpha < Alpha(1)
  /\ particles = call.before
  /\ previousValue = <<>>

\* the number of ticks a fade lasts: lifespan / fadeSpeed
FadeFrames == particleSettings.lifespan \div particleSettings.fadeSpeed

\* the particles of the store before the tick that have been through fewer than
\* FadeFrames - 1 ticks
Young == {i \in 1..Len(call.before) : call.ages[i] + 1 < FadeFrames}

\* the position after the tick of the young particle i
YoungRank(i) == Cardinality({k \in Young : k <= i})

\* C14: a particle is in the store after each of its first FadeFrames - 1 = 59
\* ticks and is removed by its 60th tick, whatever bursts and resizes come
\* between the ticks: no particle of the store has been through more than 59
\* ticks, a tick keeps exactly the particles on their 59th tick or earlier, and
\* a burst or a resize removes none and ages none.
C14_FadeLastsSixtyTicks ==
  /\ Len(ages) = Len(particles)
  /\ \A i \in 1..Len(particles) : ages[i] <= FadeFrames - 1
  /\ Ticked =>
       /\ Len(particles) = Cardinality(Young)
       /\ \A i \in Young :
            /\ particles[YoungRank(i)] = updateParticle(call.before[i], rng)
            /\ ages[YoungRank(i)] = call.ages[i] + 1
  /\ call.op \in {"createParticles", "resize"} =>
       /\ Len(particles) >= Len(call.before)
       /\ \A i \in 1..Len(call.before) :
            particles[i] = call.before[i] /\ ages[i] = call.ages[i]

C14_Witness ==
  /\ Ticked
  /\ Len(call.before) = 2
  /\ call.ages[1] = FadeFrames - 1
  /\ call.ages[2] = FadeFrames - 2
  /\ Len(particles) = 1
  /\ ages = <<FadeFrames - 1>>

\* C15: a tick with the surface available clears it and then paints exactly the
\* particles that survive the tick's culling, once each, in store order, with
\* their alpha, position and size after the update; a particle removed in the
\* tick is not painted, and with an empty store the surface is cleared and
\* nothing is painted.
C15_PaintsSurvivors ==
  Ticked =>
    /\ call.frame \in {"drawn", "cleared"}
    /\ Len(call.painted) = Cardinality(Kept)
    /\ \A i \in Kept :
         LET b == call.before[i]
             q == call.painted[Rank(i)]
         IN /\ q.alpha = PostAlpha(i)
            /\ q.x = b.x + b.vx
            /\ q.y = b.y + b.vy + Centered(rng, 1)
            /\ q.size = (b.size * 99) \div 100
            /\ q.color = b.color
    /\ \A k \in 1..Len(call.painted) : call.painted[k].alpha > 0
    /\ call.painted = particles
    /\ (call.before = <<>>) => (call.frame = "cleared" /\ call.painted = <<>>)

C15_Witness ==
  /\ Ticked
  /\ call.frame = "drawn"
  /\ Len(call.before) = 2
  /\ Kept = {2}
  /\ Len(call.painted) = 1
  /\ call.painted[1].color = call.before[2].color
  /\ call.painted[1].x = call.before[2].x + call.before[2].vx
  /\ call.before[1].x # call.before[2].x

\* C16: in every reachable state at most one per-frame callback is pending, so
\* animate runs at most once per display refresh, also after the mount effect
\* was cleaned up and run again.
C16_AtMostOnePending == pendingFrames <= 1

\* C17: every particle of the store has 0 < alpha <= 1 and a size that is
\* positive and at most the configured base size, after any sequence of edit
\* events, ticks, resizes and effect runs.
C17_StoreInvariant ==
  \A i \in 1..Len(particles) :
    /\ particles[i].alpha > 0
    /\ particles[i].alpha <= Alpha(1)
    /\ particles[i].size > 0
    /\ particles[i].size <= particleSettings.size

C17_Witness ==
  /\ call.op = "animate"
  /\ call.frame = "drawn"
  /\ Len(particles) = particleSettings.numberOfParticles
  /\ \A i \in 1..Len(particles) :
       /\ particles[i].alpha = Alpha(particleSettings.fadeSpeed) \div particles[i].lifespan
       /\ particles[i].size < particleSettings.size

\* a step that creates a burst
BurstStep == Len(particles') > Len(particles)

\* the last operation was not animate, or animate had the canvas and its context
SurfaceAvailable == call.op \in {"animate", "effect"} => (call.hasCanvas /\ call.hasCtx)

\* C18: if from some point on no burst is created, the frame loop has been
\* started and every run of animate finds the surface available, then (a pending
\* frame callback being run eventually) the store becomes empty and stays
\* empty; a store that is empty stays empty until a burst; and no particle of
\* the store has been through lifespan / fadeSpeed = 60 ticks, so the store is
\* empty within 60 ticks of the last burst.
C18_StoreEmpties ==
  /\ (<>[][~BurstStep]_vars /\ []SurfaceAvailable /\ <>(pendingFrames > 0))
       => <>[](particles = <<>>)
  /\ [][(particles = <<>> /\ ~BurstStep) => particles' = <<>>]_vars
  /\ [](\A i \in 1..Len(particles) : ages[i] < FadeFrames)

C18_Witness ==
  /\ Ticked
  /\ Len(call.before) = particleSettings.numberOfParticles
  /\ \A i \in 1..Len(call.before) : call.ages[i] = FadeFrames - 1
  /\ particles = <<>>
  /\ pendingFrames > 0

====
